---- MODULE Spec2Model ----
(***************************************************************************)
(* Model of the robot-policy inference protocol of research-g1:            *)
(*   - GR00TClient (tasks/move_cylinder/gr00t_client.py): the action       *)
(*     buffer (_action_queue, _current_timestep), connect, disconnect and  *)
(*     get_action over a ZMQ REQ socket;                                   *)
(*   - LoggingRobotInferenceServer.run (Isaac-GR00T/scripts/               *)
(*     inference_service_g1.py): the request loop over a ZMQ REP socket.   *)
(* ClientSpec drives the client against every outcome of its network call, *)
(* ServerSpec drives the server loop with every request and every failure  *)
(* of the steps of one iteration.                                          *)
(***************************************************************************)
EXTENDS Integers, Sequences, FiniteSets, TLC

(* ------------------------------ bounds --------------------------------- *)
MaxT == 3          \* largest number of rows of an action group in a reply
MaxCalls == 5      \* cap on the number of client operations in one run
MaxChunkId == 2    \* distinct chunk contents the policy can answer with
MaxRequests == 2   \* cap on the number of requests the server receives
NumSamples == 40   \* distinct simulator states an observation is taken from
MaxListLen == 2    \* longest list inside a message given to the codec
MaxSystemCalls == 3 \* cap on the client operations when the server runs too

(* ------------------------- program constants --------------------------- *)
GroupDim == 7      \* values per action group
ActionDim == 28    \* torch.zeros(28)

VARIABLES
  \* ---- GR00TClient fields
  connected,         \* self._connected
  socket,            \* self._socket: "none", or the state of the REQ socket
  action_queue,      \* self._action_queue
  current_timestep,  \* self._current_timestep
  \* ---- observation of the client's last get_action call
  ret,               \* value returned to the control loop (<<>> when there is none)
  raised,            \* exception that left get_action ("none" when it returned)
  path,              \* "offline", "hit" or "network": the branch the call took
  netKind,           \* outcome of the network call of the last call
  sent,              \* the last call put a request on the wire
  requestCount,      \* requests put on the wire so far
  callCount,         \* client operations so far
  op,                \* the client operation performed last
  dispensed,         \* get_action returns served by the chunk of the last clean refill
  chunkT,            \* number of timesteps of that chunk
  clean,             \* no network call has failed since that refill
  chunkId,           \* the reply that chunk came from
  inFlight,          \* requests sent on the current socket and not answered yet
  disconnectsOnChunk, \* disconnect() calls since the last clean refill
  \* ---- LoggingRobotInferenceServer fields and locals of run()
  running,           \* self.running
  api_token,         \* self.api_token
  step_count,        \* self.step_count
  log,               \* lines of self.log_file
  images,            \* files of self.image_dir
  pc,                \* position of run() in its loop
  request,           \* local: decoded request
  endpoint,          \* local: resolved endpoint name
  result,            \* local: handler result
  exc,               \* message of the exception being handled
  \* ---- observation of the server
  received,          \* requests received so far
  replies,           \* number of replies sent so far
  lastReply,         \* the reply sent last
  repliesThis,       \* replies sent for the request in progress
  handlerCalls,      \* handler invocations for the request in progress
  failure,           \* the step of the request in progress that failed
  prevFailure,       \* the step that failed in the previous request
  inferenceRequests, \* authorized requests received so far that resolve to get_action
  \* ---- the client's call in progress and the messages between the sockets
  callPc,            \* "idle", or "recv" while get_action waits at line 198
  wireReq,           \* requests sent and not yet received by the server
  wireRep,           \* replies that have reached the client's socket, unread
  serving,           \* whose request run() is handling: "none", "live", "stale"
  \* ---- one message through MsgSerializer
  codecPc,           \* "off", "message", "packed" or "unpacked"
  message,           \* the value given to to_bytes
  packed,            \* the bytes to_bytes returned
  unpacked,          \* what from_bytes returned, or the exception it raised
  \* ---- one observation through _prepare_observation
  obsPc,             \* "off", "sim", "observed" or "prepared"
  sample,            \* the simulator state the observation is taken from
  robot_body_state,  \* obs['robot_body_state'][0]
  robot_hand_state,  \* obs['robot_hand_state'][0]
  groot_obs          \* the state.* entries of the mapping _prepare_observation returns

clientVars == <<connected, socket, action_queue, current_timestep, ret, raised,
                path, netKind, sent, requestCount, callCount, op, dispensed, chunkT, clean,
                chunkId, inFlight, disconnectsOnChunk>>
serverVars == <<running, api_token, step_count, log, images, pc, request, endpoint,
                result, exc, received, replies, lastReply, repliesThis, handlerCalls,
                failure, prevFailure, inferenceRequests>>
wireVars == <<callPc, wireReq, wireRep, serving>>
codecVars == <<codecPc, message, packed, unpacked>>
obsVars == <<obsPc, sample, robot_body_state, robot_hand_state, groot_obs>>
vars == <<clientVars, serverVars, wireVars, codecVars, obsVars>>

(* ======================================================================= *)
(*                               CLIENT                                    *)
(* ======================================================================= *)

Groups == <<"action.left_arm", "action.right_arm", "action.left_hand", "action.right_hand">>

\* torch.zeros(28, dtype=torch.float32)
ZeroAction == [i \in 1..ActionDim |-> 0]

\* Row t (0-based) of group g (1..4) of the chunk the policy calls id.
GroupRow(id, g, t) == [i \in 1..GroupDim |-> id * 1000 + g * 100 + t * 10 + i]

\* Variant that concatenates in the order left arm, left hand, right arm,
\* right hand.
Action28HandsInterleaved(id, t) ==
  GroupRow(id, 1, t) \o GroupRow(id, 3, t) \o GroupRow(id, 2, t) \o GroupRow(id, 4, t)

\* np.concatenate([left_arm[t], right_arm[t], left_hand[t], right_hand[t]])
Action28(id, t) == GroupRow(id, 1, t) \o GroupRow(id, 2, t) \o GroupRow(id, 3, t) \o GroupRow(id, 4, t)

\* Outcomes of the steps of one network call of get_action.
NetOutcomes ==
  [kind : {"bad_obs", "send_fail", "timeout", "recv_fail", "undecodable"}]
  \cup [kind : {"error"}, msg : {"Unauthorized: Invalid API token", "boom"}]
  \cup [kind : {"missing_group"}, g : 1..4]           \* a reply without group g
  \cup [kind : {"bad_group"}, g : 1..4, left : 0..MaxT] \* group g is not an array
  \cup [kind : {"chunk"}, id : 1..MaxChunkId, rows : [1..4 -> 0..MaxT]]

Min(a, b) == IF a < b THEN a ELSE b

\* Number of iterations of `for t in range(left_arm_actions.shape[0])`
\* that append to the queue before the loop ends or an index fails.
BuiltRows(rows) ==
  Min(Min(rows[1], rows[2]), Min(rows[3], rows[4]))

\* Variant: a socket that accepts a send while a reply is awaited.
CanSendAlways(sock) == TRUE

\* A ZMQ REQ socket alternates send and recv: send is possible only when no
\* reply is awaited.
CanSend(sock) == sock = "ready"

\* Variant with the clause for zmq.error.Again only.
CaughtTimeoutOnly(e) == e = "Again"

\* The except clauses of get_action (lines 232-239): `zmq.error.Again`
\* and `Exception` catch every exception raised in the try block.
Caught(e) == e = "Again" \/ e \in {"KeyError", "ZMQError", "ValueError", "RuntimeError",
                                   "AttributeError", "IndexError"}

\* Variant of line 228 that leaves the cursor on the timestep just returned.
CursorAfterRefillZero == 1 - 1

\* Line 228: self._current_timestep = 1
CursorAfterRefill == 1

\* The try block of get_action (lines 184-230) run from queue q, cursor ts
\* and socket state sock with network outcome net.  e is the exception the
\* block ends with ("none" when it returns v).
TryBlock(q, ts, sock, net) ==
  IF net.kind = "bad_obs" THEN
    [q |-> q, ts |-> ts, sock |-> sock, sent |-> FALSE, e |-> "KeyError", v |-> ZeroAction]
  ELSE IF ~CanSend(sock) \/ net.kind = "send_fail" THEN
    [q |-> q, ts |-> ts, sock |-> sock, sent |-> FALSE, e |-> "ZMQError", v |-> ZeroAction]
  ELSE IF net.kind = "timeout" THEN
    [q |-> q, ts |-> ts, sock |-> "awaiting", sent |-> TRUE, e |-> "Again", v |-> ZeroAction]
  ELSE IF net.kind = "recv_fail" THEN
    [q |-> q, ts |-> ts, sock |-> "awaiting", sent |-> TRUE, e |-> "ZMQError", v |-> ZeroAction]
  ELSE IF net.kind = "undecodable" THEN
    [q |-> q, ts |-> ts, sock |-> "ready", sent |-> TRUE, e |-> "ValueError", v |-> ZeroAction]
  ELSE IF net.kind = "error" THEN
    [q |-> q, ts |-> ts, sock |-> "ready", sent |-> TRUE, e |-> "RuntimeError", v |-> ZeroAction]
  ELSE IF net.kind = "missing_group" THEN
    \* lines 208-211
    [q |-> q, ts |-> ts, sock |-> "ready", sent |-> TRUE, e |-> "KeyError", v |-> ZeroAction]
  ELSE IF net.kind = "bad_group" /\ (net.g = 1 \/ net.left > 0) THEN
    \* line 215 has emptied the queue when line 216 reads .shape of a
    \* left_arm that has none, or when row 0 of another group is read
    [q |-> <<>>, ts |-> ts, sock |-> "ready", sent |-> TRUE,
     e |-> IF net.g = 1 THEN "AttributeError" ELSE "ValueError", v |-> ZeroAction]
  ELSE IF net.kind = "bad_group" THEN
    \* left_arm has no rows: the bad group is never read, line 230 indexes []
    [q |-> <<>>, ts |-> CursorAfterRefill, sock |-> "ready", sent |-> TRUE,
     e |-> "IndexError", v |-> ZeroAction]
  ELSE IF BuiltRows(net.rows) < net.rows[1] THEN
    \* an index fails at t = BuiltRows: the rows before it are in the queue
    [q |-> [t \in 1..BuiltRows(net.rows) |-> Action28(net.id, t - 1)], ts |-> ts,
     sock |-> "ready", sent |-> TRUE, e |-> "IndexError", v |-> ZeroAction]
  ELSE IF net.rows[1] = 0 THEN
    \* the loop does nothing, line 228 sets the cursor, line 230 indexes []
    [q |-> <<>>, ts |-> CursorAfterRefill, sock |-> "ready", sent |-> TRUE,
     e |-> "IndexError", v |-> ZeroAction]
  ELSE
    [q |-> [t \in 1..net.rows[1] |-> Action28(net.id, t - 1)], ts |-> CursorAfterRefill,
     sock |-> "ready", sent |-> TRUE, e |-> "none", v |-> Action28(net.id, 0)]

\* Variant of the except clauses that returns zeros for one group only.
FallbackOneGroup == [i \in 1..GroupDim |-> 0]

\* The value returned by the except clauses (lines 234 and 239).
FallbackAction == ZeroAction

\* Variant of the guard that never dispenses the last timestep of a chunk.
BufferHitOffByOne(q, ts) == Len(q) > 0 /\ ts + 1 < Len(q)

\* `if self._action_queue and self._current_timestep < len(self._action_queue)`
BufferHit(q, ts) == Len(q) > 0 /\ ts < Len(q)

\* The network outcomes a call can meet: none when the call returns before
\* the try block, only failures up to the send when the socket cannot send.
NetInputs(conn, sock, q, ts) ==
  IF ~conn \/ BufferHit(q, ts) THEN {[kind |-> "none"]}
  ELSE IF ~CanSend(sock) THEN [kind : {"bad_obs", "send_fail"}]
  ELSE NetOutcomes

\* Variant that serves the buffer before it looks at the connection.
GetActionBufferFirst(conn, sock, q, ts, net) ==
  IF BufferHit(q, ts) THEN
    [q |-> q, ts |-> ts + 1, sock |-> sock, sent |-> FALSE, raised |-> "none",
     ret |-> q[ts + 1], path |-> "hit", refill |-> FALSE]
  ELSE IF ~conn THEN
    [q |-> q, ts |-> ts, sock |-> sock, sent |-> FALSE, raised |-> "none",
     ret |-> ZeroAction, path |-> "offline", refill |-> FALSE]
  ELSE
    LET b == TryBlock(q, ts, sock, net) IN
      [q |-> b.q, ts |-> b.ts, sock |-> b.sock, sent |-> b.sent,
       raised |-> IF b.e = "none" \/ Caught(b.e) THEN "none" ELSE b.e,
       ret |-> IF b.e = "none" THEN b.v
               ELSE IF Caught(b.e) THEN FallbackAction ELSE <<>>,
       path |-> "network", refill |-> b.e = "none"]

\* GR00TClient.get_action as a function of the client's state and the
\* outcome of its network call.
GetAction(conn, sock, q, ts, net) ==
  IF ~conn THEN
    [q |-> q, ts |-> ts, sock |-> sock, sent |-> FALSE, raised |-> "none",
     ret |-> ZeroAction, path |-> "offline", refill |-> FALSE]
  ELSE IF BufferHit(q, ts) THEN
    [q |-> q, ts |-> ts + 1, sock |-> sock, sent |-> FALSE, raised |-> "none",
     ret |-> q[ts + 1], path |-> "hit", refill |-> FALSE]
  ELSE
    LET b == TryBlock(q, ts, sock, net) IN
      [q |-> b.q, ts |-> b.ts, sock |-> b.sock, sent |-> b.sent,
       raised |-> IF b.e = "none" \/ Caught(b.e) THEN "none" ELSE b.e,
       ret |-> IF b.e = "none" THEN b.v
               ELSE IF Caught(b.e) THEN FallbackAction ELSE <<>>,
       path |-> "network", refill |-> b.e = "none"]

ClientInit ==
  /\ connected = FALSE
  /\ socket = "none"
  /\ action_queue = <<>>
  /\ current_timestep = 0
  /\ ret = <<>>
  /\ raised = "none"
  /\ path = "none"
  /\ netKind = "none"
  /\ sent = FALSE
  /\ requestCount = 0
  /\ callCount = 0
  /\ op = "none"
  /\ dispensed = 0
  /\ chunkT = 0
  /\ clean = FALSE
  /\ chunkId = 0
  /\ inFlight = 0
  /\ disconnectsOnChunk = 0

\* GR00TClient.connect: a new context and REQ socket, or an exception
\* on the way (then the old socket object may still be the field's value).
connect ==
  /\ callCount < MaxCalls
  /\ callCount' = callCount + 1
  /\ op' = "connect"
  /\ \E ok \in BOOLEAN :
       IF ok THEN connected' = TRUE /\ socket' = "ready"
       ELSE connected' = FALSE /\ socket' \in {socket, "ready"}
  /\ inFlight' = IF socket' = socket /\ socket # "ready" THEN inFlight ELSE 0
  /\ UNCHANGED <<action_queue, current_timestep, ret, raised, path, netKind, sent,
                 requestCount, dispensed, chunkT, clean, chunkId, disconnectsOnChunk>>

\* Variant of disconnect that also drops the buffered chunk.
disconnectClearsBuffer ==
  /\ callCount < MaxCalls
  /\ callCount' = callCount + 1
  /\ op' = "disconnect"
  /\ socket' = IF socket = "none" THEN "none" ELSE "closed"
  /\ connected' = FALSE
  /\ inFlight' = 0
  /\ disconnectsOnChunk' = disconnectsOnChunk + 1
  /\ action_queue' = <<>>
  /\ current_timestep' = 0
  /\ UNCHANGED <<ret, raised, path, netKind, sent,
                 requestCount, dispensed, chunkT, clean, chunkId>>

\* GR00TClient.disconnect
disconnect ==
  /\ callCount < MaxCalls
  /\ callCount' = callCount + 1
  /\ op' = "disconnect"
  /\ socket' = IF socket = "none" THEN "none" ELSE "closed"
  /\ connected' = FALSE
  /\ inFlight' = 0
  /\ disconnectsOnChunk' = disconnectsOnChunk + 1
  /\ UNCHANGED <<action_queue, current_timestep, ret, raised, path, netKind, sent,
                 requestCount, dispensed, chunkT, clean, chunkId>>

\* One call of GR00TClient.get_action by the control loop.
get_action ==
  /\ callCount < MaxCalls
  /\ callCount' = callCount + 1
  /\ op' = "get_action"
  /\ \E net \in NetInputs(connected, socket, action_queue, current_timestep) :
       \E r \in {GetAction(connected, socket, action_queue, current_timestep, net)} :
         /\ action_queue' = r.q
         /\ current_timestep' = r.ts
         /\ socket' = r.sock
         /\ ret' = r.ret
         /\ raised' = r.raised
         /\ path' = r.path
         /\ sent' = r.sent
         /\ netKind' = IF r.path = "network" THEN net.kind ELSE "none"
         /\ requestCount' = IF r.sent THEN requestCount + 1 ELSE requestCount
         /\ inFlight' = IF r.sent /\ net.kind \in {"timeout", "recv_fail"}
                         THEN inFlight + 1 ELSE inFlight
         /\ disconnectsOnChunk' = IF r.refill THEN 0 ELSE disconnectsOnChunk
         /\ IF r.refill
            THEN /\ dispensed' = 1 /\ clean' = TRUE
                 /\ chunkT' = net.rows[1] /\ chunkId' = net.id
            ELSE IF r.path = "network"
            THEN /\ dispensed' = dispensed /\ clean' = FALSE
                 /\ UNCHANGED <<chunkT, chunkId>>
            ELSE IF r.path = "hit"
            THEN /\ dispensed' = dispensed + 1 /\ clean' = clean
                 /\ UNCHANGED <<chunkT, chunkId>>
            ELSE UNCHANGED <<dispensed, chunkT, clean, chunkId>>
  /\ UNCHANGED connected

ClientNext ==
  (connect \/ disconnect \/ get_action)
    /\ UNCHANGED <<serverVars, wireVars, codecVars, obsVars>>

(* ======================================================================= *)
(*                               SERVER                                    *)
(* ======================================================================= *)

Absent == "<absent>"          \* a field the request does not carry
Undecodable == [undecodable |-> TRUE] \* a message MsgSerializer.from_bytes rejects
NoRequest == [none |-> TRUE]  \* run() has not decoded a request yet
NoResult == [none |-> TRUE]   \* run() has not assigned result yet
NoReply == [none |-> TRUE]    \* nothing has been sent yet
EmptyMapping == "{}"          \* the default of request.get("data", {})
NoArg == "<no argument>"      \* handler.handler() called without argument

BogusEndpoints == {"bogus1", "bogus2", "bogus3"}

\* The endpoint registry self._endpoints and the requires_input flag of
\* each entry.
requires_input == [e \in {"get_action", "get_modality_config"} |-> e = "get_action"]
Registry == DOMAIN requires_input

\* Messages that can arrive on the REP socket.
Messages ==
  {Undecodable} \cup
  [token : {Absent, "secret", "wrong"},
   endpoint : {Absent} \cup Registry \cup BogusEndpoints,
   data : {Absent, "obs"}]

HandlerMessages == {"boom", "out of memory"}

\* str(e) of the exception MsgSerializer.from_bytes raises at line 123.
DecodeErrorMessage == "Unpack failed: incomplete input"

\* self._validate_token(request)
validate_token(req) == api_token = "none" \/ req.token = api_token

\* Variant of line 126 with another text.
UnauthorizedShort == [error |-> "Unauthorized"]

\* Line 126
UnauthorizedReply == [error |-> "Unauthorized: Invalid API token"]

\* Variant of line 129 without the default.
ResolveEndpointNoDefault(req) == req.endpoint

\* request.get("endpoint", "get_action"), line 129
ResolveEndpoint(req) == IF req.endpoint = Absent THEN "get_action" ELSE req.endpoint

\* Variant of line 132 that does not format the name into the message.
UnknownEndpointNoName(name) == "Unknown endpoint"

\* str(ValueError(f"Unknown endpoint: {endpoint}")), line 132
UnknownEndpointMessage(name) == "Unknown endpoint: " \o name

\* request.get("data", {}), lines 137 and 187
RequestData(req) == IF req.data = Absent THEN EmptyMapping ELSE req.data

\* What the handler of endpoint e returns for argument a when it does not
\* raise.
HandlerResult(e, a) == [endpoint |-> e, input |-> a]

\* Variant without the except clause: the exception leaves run().
OnExceptionUncaught == "crashed"

\* `except Exception as e` of line 190: where control goes when a
\* statement of the try block raises.
OnException == "except"

\* Variant of line 194 that hides the exception's message.
ErrorReplyGeneric(msg) == [error |-> "internal error"]

\* Line 194: the reply built from the exception.
ErrorReply(msg) == [error |-> msg]

\* Outcomes of the fallible steps of the get_action branch (lines 135-183).
GetActionOutcomes ==
  [input_log : BOOLEAN,                       \* lines 140-149 complete
   image : {"png", "npy", "fail"},             \* lines 152-160: PIL, np.save fallback, both fail
   handler : {"ok"} \cup HandlerMessages,      \* line 165 returns or raises
   output_log : BOOLEAN,                       \* lines 169-176 complete
   write : {"ok", "fail_none", "fail_partial"}] \* lines 179-181

\* Variant of line 136 that counts a request twice.
NextStepTwice(sc) == sc + 2

\* Line 136: self.step_count += 1
NextStep(sc) == sc + 1

\* The argument line 165 gives the get_action handler.
GetActionArgument(req) == RequestData(req)

\* Lines 135-183 for request req, from step counter sc, log lg and image
\* directory im.  e is the message of the exception that ends the branch
\* ("none" when it reaches line 189).
GetActionBranch(req, sc, lg, im, out) ==
  LET step == NextStep(sc)
      obs == RequestData(req)
      hasImage == obs = "obs"
      im2 == IF hasImage /\ out.image # "fail"
             THEN im \cup {[step |-> step, ext |-> out.image]} ELSE im
      call == [endpoint |-> "get_action", arg |-> GetActionArgument(req)]
      res == HandlerResult("get_action", GetActionArgument(req))
      inRec == [step |-> step, type |-> "input"]
      outRec == [step |-> step, type |-> "output"]
  IN
  IF ~out.input_log /\ obs # EmptyMapping THEN
    \* the loop of line 141 has no iteration to fail in when obs is {}
    [step_count |-> step, log |-> lg, images |-> im, calls |-> <<>>, result |-> NoResult,
     e |-> "input summary failed", failure |-> "input_log"]
  ELSE IF hasImage /\ out.image = "fail" THEN
    [step_count |-> step, log |-> lg, images |-> im, calls |-> <<>>, result |-> NoResult,
     e |-> "image save failed", failure |-> "image"]
  ELSE IF out.handler # "ok" THEN
    [step_count |-> step, log |-> lg, images |-> im2, calls |-> <<call>>, result |-> NoResult,
     e |-> out.handler, failure |-> "handler"]
  ELSE IF ~out.output_log THEN
    [step_count |-> step, log |-> lg, images |-> im2, calls |-> <<call>>, result |-> res,
     e |-> "output summary failed", failure |-> "output_log"]
  ELSE IF out.write = "fail_none" THEN
    [step_count |-> step, log |-> lg, images |-> im2, calls |-> <<call>>, result |-> res,
     e |-> "log write failed", failure |-> "write_log"]
  ELSE IF out.write = "fail_partial" THEN
    [step_count |-> step, log |-> Append(lg, inRec), images |-> im2, calls |-> <<call>>,
     result |-> res, e |-> "log write failed", failure |-> "write_log"]
  ELSE
    [step_count |-> step, log |-> Append(Append(lg, inRec), outRec), images |-> im2,
     calls |-> <<call>>, result |-> res, e |-> "none", failure |-> "none"]

\* Variant of line 187 that passes the data whatever the flag.
OtherArgumentAlways(e, req) == RequestData(req)

\* The argument line 187 gives the handler of another endpoint.
OtherArgument(e, req) == IF requires_input[e] THEN RequestData(req) ELSE NoArg

ServerInit ==
  /\ running = TRUE
  /\ api_token \in {"none", "secret"}
  /\ step_count = 0
  /\ log = <<>>
  /\ images = {}
  /\ pc = "while"
  /\ request = NoRequest
  /\ endpoint = "none"
  /\ result = NoResult
  /\ exc = "none"
  /\ received = 0
  /\ replies = 0
  /\ lastReply = NoReply
  /\ repliesThis = 0
  /\ handlerCalls = <<>>
  /\ failure = "none"
  /\ prevFailure = "none"
  /\ inferenceRequests = 0

\* self.socket.send(...): one reply leaves the REP socket.
SendReply(r) ==
  /\ lastReply' = r
  /\ replies' = replies + 1
  /\ repliesThis' = repliesThis + 1

\* `while self.running:` (line 120)
LoopHead ==
  /\ pc = "while"
  /\ pc' = IF running THEN "recv" ELSE "stopped"
  /\ UNCHANGED <<running, api_token, step_count, log, images, request, endpoint, result,
                 exc, received, replies, lastReply, repliesThis, handlerCalls, failure,
                 prevFailure, inferenceRequests>>

\* The server is stopped from outside the loop.
Stop ==
  /\ running
  /\ running' = FALSE
  /\ UNCHANGED <<api_token, step_count, log, images, pc, request, endpoint, result, exc,
                 received, replies, lastReply, repliesThis, handlerCalls, failure,
                 prevFailure, inferenceRequests>>

\* Lines 122-123 for the message m that recv returns.
RecvMessage(m) ==
  /\ pc = "recv"
  /\ received < MaxRequests
  /\ received' = received + 1
  /\ repliesThis' = 0
  /\ handlerCalls' = <<>>
  /\ prevFailure' = failure
  /\ IF m = Undecodable
     THEN /\ exc' = DecodeErrorMessage
          /\ failure' = "decode"
          /\ pc' = OnException
          /\ UNCHANGED <<request, inferenceRequests>>
     ELSE /\ request' = m
          /\ failure' = "none"
          /\ pc' = "validate"
          /\ inferenceRequests' =
               IF validate_token(m) /\ m.endpoint \in {Absent, "get_action"}
               THEN inferenceRequests + 1 ELSE inferenceRequests
          /\ UNCHANGED exc
  /\ UNCHANGED <<running, api_token, step_count, log, images, endpoint, result, replies,
                 lastReply>>

\* Lines 122-123: receive a message, from any client, and decode it.
Recv == \E m \in Messages : RecvMessage(m)

\* Variant of lines 125-127 without the `continue` of line 127.
ValidateFallsThrough ==
  /\ pc = "validate"
  /\ IF ~validate_token(request)
     THEN /\ SendReply(UnauthorizedReply)
          /\ failure' = "token"
     ELSE UNCHANGED <<replies, lastReply, repliesThis, failure>>
  /\ pc' = "resolve"
  /\ UNCHANGED <<running, api_token, step_count, log, images, request, endpoint, result,
                 exc, received, handlerCalls, prevFailure, inferenceRequests>>

\* Lines 125-127: reject a request whose token is not the server's.
Validate ==
  /\ pc = "validate"
  /\ IF ~validate_token(request)
     THEN /\ SendReply(UnauthorizedReply)
          /\ failure' = "token"
          /\ pc' = "while"
     ELSE /\ pc' = "resolve"
          /\ UNCHANGED <<replies, lastReply, repliesThis, failure>>
  /\ UNCHANGED <<running, api_token, step_count, log, images, request, endpoint, result,
                 exc, received, handlerCalls, prevFailure, inferenceRequests>>

\* Variant that counts the step before the endpoint is looked up.
ResolveCountsFirst ==
  /\ pc = "resolve"
  /\ endpoint' = ResolveEndpoint(request)
  /\ step_count' = NextStep(step_count)
  /\ IF endpoint' \notin Registry
     THEN /\ exc' = UnknownEndpointMessage(endpoint')
          /\ failure' = "lookup"
          /\ pc' = OnException
     ELSE /\ pc' = "handle"
          /\ UNCHANGED <<exc, failure>>
  /\ UNCHANGED <<running, api_token, log, images, request, result, received,
                 replies, lastReply, repliesThis, handlerCalls, prevFailure, inferenceRequests>>

\* Lines 129-132: resolve the endpoint name.
Resolve ==
  /\ pc = "resolve"
  /\ endpoint' = ResolveEndpoint(request)
  /\ IF endpoint' \notin Registry
     THEN /\ exc' = UnknownEndpointMessage(endpoint')
          /\ failure' = "lookup"
          /\ pc' = OnException
     ELSE /\ pc' = "handle"
          /\ UNCHANGED <<exc, failure>>
  /\ UNCHANGED <<running, api_token, step_count, log, images, request, result, received,
                 replies, lastReply, repliesThis, handlerCalls, prevFailure, inferenceRequests>>

\* Lines 135-183: the logged inference call.
HandleGetAction ==
  /\ pc = "handle"
  /\ endpoint = "get_action"
  /\ \E out \in GetActionOutcomes :
       \E b \in {GetActionBranch(request, step_count, log, images, out)} :
         /\ step_count' = b.step_count
         /\ log' = b.log
         /\ images' = b.images
         /\ handlerCalls' = handlerCalls \o b.calls
         /\ result' = IF b.result = NoResult THEN result ELSE b.result
         /\ failure' = b.failure
         /\ IF b.e = "none"
            THEN pc' = "send" /\ UNCHANGED exc
            ELSE pc' = OnException /\ exc' = b.e
  /\ UNCHANGED <<running, api_token, request, endpoint, received, replies, lastReply,
                 repliesThis, prevFailure, inferenceRequests>>

\* Lines 185-187: any other registered endpoint.
HandleOther ==
  /\ pc = "handle"
  /\ endpoint # "get_action"
  /\ handlerCalls' = Append(handlerCalls,
                            [endpoint |-> endpoint, arg |-> OtherArgument(endpoint, request)])
  /\ \E h \in {"ok"} \cup HandlerMessages :
       IF h = "ok"
       THEN /\ result' = HandlerResult(endpoint, OtherArgument(endpoint, request))
            /\ pc' = "send"
            /\ UNCHANGED <<exc, failure>>
       ELSE /\ exc' = h
            /\ failure' = "handler"
            /\ pc' = OnException
            /\ UNCHANGED result
  /\ UNCHANGED <<running, api_token, step_count, log, images, request, endpoint, received,
                 replies, lastReply, repliesThis, prevFailure, inferenceRequests>>

\* Line 189: encode the result and send it.
SendResult ==
  /\ pc = "send"
  /\ \E encodable \in BOOLEAN :
       IF encodable
       THEN /\ SendReply(result)
            /\ pc' = "while"
            /\ UNCHANGED <<exc, failure>>
       ELSE /\ exc' = "cannot serialize result"
            /\ failure' = "encode"
            /\ pc' = OnException
            /\ UNCHANGED <<replies, lastReply, repliesThis>>
  /\ UNCHANGED <<running, api_token, step_count, log, images, request, endpoint, result,
                 received, handlerCalls, prevFailure, inferenceRequests>>

\* Lines 190-194: the except clause replies with the exception's message.
Except ==
  /\ pc = "except"
  /\ SendReply(ErrorReply(exc))
  /\ pc' = "while"
  /\ UNCHANGED <<running, api_token, step_count, log, images, request, endpoint, result,
                 exc, received, handlerCalls, failure, prevFailure, inferenceRequests>>

ServerNext ==
  (LoopHead \/ Stop \/ Recv \/ Validate \/ Resolve \/ HandleGetAction \/ HandleOther
     \/ SendResult \/ Except)
    /\ UNCHANGED <<clientVars, wireVars, codecVars, obsVars>>

(* ======================================================================= *)
(*                     OBSERVATION SENT TO THE POLICY                      *)
(* ======================================================================= *)

\* The value the simulator holds, in sample s, for quantity k (1 position,
\* 2 velocity, 3 applied torque) of joint j of the articulation.
Reading(s, k, j) == s * 1000 + k * 100 + j

\* g1_state.py: left leg, right leg, waist, left arm, right arm
body_joint_indices ==
  <<0, 3, 6, 9, 13, 17,
    1, 4, 7, 10, 14, 18,
    2, 5, 8,
    11, 15, 19, 21, 23, 25, 27,
    12, 16, 20, 22, 24, 26, 28>>

\* dex3_state.py: left hand, right hand
hand_joint_indices ==
  <<31, 37, 41, 30, 36, 29, 35,
    34, 40, 42, 33, 39, 32, 38>>

\* torch.gather(quantity, 1, idx_batch)[0]
Gather(s, k, idx) == [i \in 1..Len(idx) |-> Reading(s, k, idx[i])]

\* torch.cat([pos, vel, torque], dim=1)
get_robot_body_joint_states(s) ==
  Gather(s, 1, body_joint_indices) \o Gather(s, 2, body_joint_indices)
    \o Gather(s, 3, body_joint_indices)

\* torch.cat([pos, vel, torque], dim=1)
get_robot_hand_joint_states(s) ==
  Gather(s, 1, hand_joint_indices) \o Gather(s, 2, hand_joint_indices)
    \o Gather(s, 3, hand_joint_indices)

\* v[::3]
EveryThird(v) == [i \in 1..((Len(v) + 2) \div 3) |-> v[3 * (i - 1) + 1]]

\* list(range(lo, hi)): 0-based positions
Range(lo, hi) == [i \in 1..(hi - lo) |-> lo + i - 1]

left_arm_indices == Range(15, 22)
right_arm_indices == Range(29, 36)
left_hand_indices == Range(22, 29)
right_hand_indices == Range(36, 43)

\* v[idx] for a list idx of 0-based positions
Index(v, idx) == [i \in 1..Len(idx) |-> v[idx[i] + 1]]

\* GR00TClient._prepare_observation, the state.* entries.  The widening
\* astype(np.float64) of line 125 keeps every value.
prepare_observation(body_state, hand_state) ==
  LET body_positions == EveryThird(body_state)
      hand_positions == EveryThird(hand_state)
      full_state == body_positions \o hand_positions
  IN [left_arm |-> Index(full_state, left_arm_indices),
      right_arm |-> Index(full_state, right_arm_indices),
      left_hand |-> Index(full_state, left_hand_indices),
      right_hand |-> Index(full_state, right_hand_indices)]

NoObservation == [none |-> TRUE]

ObsOff ==
  /\ obsPc = "off"
  /\ sample = 0
  /\ robot_body_state = <<>>
  /\ robot_hand_state = <<>>
  /\ groot_obs = NoObservation

ObsInit ==
  /\ obsPc = "sim"
  /\ sample \in 1..NumSamples
  /\ robot_body_state = <<>>
  /\ robot_hand_state = <<>>
  /\ groot_obs = NoObservation

\* The observation manager evaluates the two observation terms.
Observe ==
  /\ obsPc = "sim"
  /\ robot_body_state' = get_robot_body_joint_states(sample)
  /\ robot_hand_state' = get_robot_hand_joint_states(sample)
  /\ obsPc' = "observed"
  /\ UNCHANGED <<sample, groot_obs>>

\* Line 185: groot_obs = self._prepare_observation(obs, env)
PrepareObservation ==
  /\ obsPc = "observed"
  /\ groot_obs' = prepare_observation(robot_body_state, robot_hand_state)
  /\ obsPc' = "prepared"
  /\ UNCHANGED <<sample, robot_body_state, robot_hand_state>>

\* The control loop steps the environment and observes again.
EnvStep ==
  /\ obsPc = "prepared"
  /\ sample' \in 1..NumSamples
  /\ robot_body_state' = <<>>
  /\ robot_hand_state' = <<>>
  /\ groot_obs' = NoObservation
  /\ obsPc' = "sim"

ObsNext ==
  (Observe \/ PrepareObservation \/ EnvStep)
    /\ UNCHANGED <<clientVars, serverVars, wireVars, codecVars>>

(* ======================================================================= *)
(*                              MsgSerializer                              *)
(* ======================================================================= *)

\* Python values are records named after their type: [int |-> n],
\* [str |-> s], [bool |-> b], [bytes |-> b], [list |-> <<...>>],
\* [dict |-> f] with f a function on the keys, [ndarray |-> a] with a the
\* shape, dtype and contents.  Bytes produced by msgpack are the tree of
\* the msgpack formats: [fixint], [fixstr], [true], [bin], [array], [map].

Arrays ==
  {[shape |-> <<2>>, dtype |-> "float64", data |-> <<1, 2>>],
   [shape |-> <<1, 2>>, dtype |-> "uint8", data |-> <<3, 4>>]}

Scalars == {[int |-> 7], [str |-> "pick"], [bool |-> TRUE]}

Leaves == Scalars \cup {[ndarray |-> a] : a \in Arrays}

\* The keys a mapping can have; "__ndarray_class__" and "as_npy" are the
\* ones encode_custom_classes uses.
Keys == {"data", "__ndarray_class__", "as_npy"}

Dicts(V) == UNION {[S -> V] : S \in SUBSET Keys}

Lists(V) == UNION {[1..n -> V] : n \in 0..MaxListLen}

Nested ==
  Leaves \cup {[dict |-> d] : d \in Dicts(Leaves)} \cup {[list |-> l] : l \in Lists(Leaves)}

\* The messages given to the codec: values nested up to two levels.
CodecMessages ==
  Nested \cup {[dict |-> d] : d \in [{"data"} -> Nested]} \cup {[list |-> <<v>>] : v \in Nested}

\* The dtype descriptor of the .npy header.
Descr == [float64 |-> "<f8", uint8 |-> "|u1"]

\* np.save(output, obj, allow_pickle=False); output.getvalue()
np_save(a) ==
  [npy |-> [descr |-> Descr[a.dtype], fortran_order |-> FALSE, shape |-> a.shape,
            payload |-> a.data]]

\* np.load(io.BytesIO(b), allow_pickle=False) for bytes that hold a .npy file
np_load(b) ==
  [shape |-> b.npy.shape,
   dtype |-> CHOOSE t \in DOMAIN Descr : Descr[t] = b.npy.descr,
   data |-> b.npy.payload]

\* MsgSerializer.encode_custom_classes (lines 33-38)
encode_custom_classes(obj) ==
  [dict |-> [k \in {"__ndarray_class__", "as_npy"} |->
               IF k = "as_npy" THEN [bytes |-> np_save(obj.ndarray)] ELSE [bool |-> TRUE]]]

\* msgpack.packb(data, default=encode_custom_classes)
RECURSIVE packb(_)
packb(v) ==
  IF "int" \in DOMAIN v THEN [fixint |-> v.int]
  ELSE IF "str" \in DOMAIN v THEN [fixstr |-> v.str]
  ELSE IF "bool" \in DOMAIN v THEN [true |-> v.bool]
  ELSE IF "bytes" \in DOMAIN v THEN [bin |-> v.bytes]
  ELSE IF "list" \in DOMAIN v THEN [array |-> [i \in DOMAIN v.list |-> packb(v.list[i])]]
  ELSE IF "dict" \in DOMAIN v THEN [map |-> [k \in DOMAIN v.dict |-> packb(v.dict[k])]]
  ELSE packb(encode_custom_classes(v))

\* MsgSerializer.to_bytes (lines 17-18)
to_bytes(data) == packb(data)

\* MsgSerializer.decode_custom_classes (lines 25-28): the hook msgpack calls
\* with every mapping it has decoded.
decode_custom_classes(obj) ==
  IF "__ndarray_class__" \in DOMAIN obj
  THEN IF "as_npy" \notin DOMAIN obj THEN [error |-> "KeyError"]
       ELSE IF "bytes" \in DOMAIN obj["as_npy"]
       THEN [ndarray |-> np_load(obj["as_npy"].bytes)]
       ELSE IF "ndarray" \in DOMAIN obj["as_npy"]
       THEN [error |-> "ValueError"]   \* the array's buffer is no .npy file
       ELSE [error |-> "TypeError"]    \* io.BytesIO wants a bytes-like object
  ELSE [dict |-> obj]

\* The exception raised while the children c of a container were decoded,
\* or the container made of them.
Raised(c, whole) ==
  LET failed == {k \in DOMAIN c : "error" \in DOMAIN c[k]}
  IN IF failed = {} THEN whole ELSE c[CHOOSE k \in failed : TRUE]

\* msgpack.unpackb(data, object_hook=decode_custom_classes)
RECURSIVE unpackb(_)
unpackb(b) ==
  IF "fixint" \in DOMAIN b THEN [int |-> b.fixint]
  ELSE IF "fixstr" \in DOMAIN b THEN [str |-> b.fixstr]
  ELSE IF "true" \in DOMAIN b THEN [bool |-> b.true]
  ELSE IF "bin" \in DOMAIN b THEN [bytes |-> b.bin]
  ELSE IF "array" \in DOMAIN b
  THEN LET c == [i \in DOMAIN b.array |-> unpackb(b.array[i])]
       IN Raised(c, [list |-> c])
  ELSE LET c == [k \in DOMAIN b.map |-> unpackb(b.map[k])]
       IN Raised(c, decode_custom_classes(c))

\* MsgSerializer.from_bytes (lines 21-22)
from_bytes(data) == unpackb(data)

NoValue == [none |-> TRUE]

CodecOff ==
  /\ codecPc = "off"
  /\ message = NoValue
  /\ packed = NoValue
  /\ unpacked = NoValue

CodecInit ==
  /\ codecPc = "message"
  /\ message \in CodecMessages
  /\ packed = NoValue
  /\ unpacked = NoValue

\* The sender calls MsgSerializer.to_bytes.
Encode ==
  /\ codecPc = "message"
  /\ packed' = to_bytes(message)
  /\ codecPc' = "packed"
  /\ UNCHANGED <<message, unpacked>>

\* The receiver calls MsgSerializer.from_bytes.
Decode ==
  /\ codecPc = "packed"
  /\ unpacked' = from_bytes(packed)
  /\ codecPc' = "unpacked"
  /\ UNCHANGED <<message, packed>>

CodecNext ==
  (Encode \/ Decode) /\ UNCHANGED <<clientVars, serverVars, wireVars, obsVars>>

(* ======================================================================= *)
(*                  CLIENT AND SERVER ON ONE CONNECTION                    *)
(* ======================================================================= *)

\* Variant of lines 189-192 that adds the server's token to the request.
ClientRequestWithToken == [token |-> "secret", endpoint |-> "get_action", data |-> "obs"]

\* Lines 189-192: request = {"endpoint": "get_action", "data": groot_obs}
ClientRequest == [token |-> Absent, endpoint |-> "get_action", data |-> "obs"]

\* Variant of connect without line 90: recv waits for ever (ZMQ's default).
RCVTIMEO_Infinite == 0 - 1

\* Line 90: self._socket.setsockopt(zmq.RCVTIMEO, 10000)
RCVTIMEO == 10000

\* What the decoded reply r is to lines 199-230: an error reply (line 202),
\* or the result of the policy, which is one chunk with the same number of
\* rows in each of the four groups.
ReplyOutcomes(r) ==
  IF "error" \in DOMAIN r THEN {[kind |-> "error", msg |-> r.error]}
  ELSE {[kind |-> "chunk", id |-> i, rows |-> [g \in 1..4 |-> t]] :
          i \in 1..MaxChunkId, t \in 0..MaxT}

\* What a call can meet up to its send: nothing when it returns before the
\* try block, else a failure before or at the send, or the send itself.
SendInputs(conn, sock, q, ts) ==
  IF ~conn \/ BufferHit(q, ts) THEN {[kind |-> "none"]}
  ELSE IF ~CanSend(sock) THEN [kind : {"bad_obs", "send_fail"}]
  ELSE [kind : {"bad_obs", "send_fail", "sent"}]

WireInit ==
  /\ callPc = "idle"
  /\ wireReq = <<>>
  /\ wireRep = <<>>
  /\ serving = "none"

\* The socket of the client has gone (closed, or replaced by a new one):
\* what it sent is still on its way or in work, but the replies have no
\* socket to reach, and what had reached it is discarded with it.
SocketGone ==
  /\ wireReq' = [i \in DOMAIN wireReq |-> [wireReq[i] EXCEPT !.live = FALSE]]
  /\ serving' = IF serving = "none" THEN "none" ELSE "stale"
  /\ wireRep' = <<>>

\* connect between two calls of the control loop.
ClientConnect ==
  /\ callPc = "idle"
  /\ callCount < MaxSystemCalls
  /\ connect
  /\ IF socket' = socket /\ socket # "ready"
     THEN UNCHANGED <<wireReq, wireRep, serving>>
     ELSE SocketGone
  /\ UNCHANGED callPc

\* disconnect between two calls of the control loop.
ClientDisconnect ==
  /\ callPc = "idle"
  /\ callCount < MaxSystemCalls
  /\ disconnect
  /\ IF socket = "none"
     THEN UNCHANGED <<wireReq, wireRep, serving>>
     ELSE SocketGone
  /\ UNCHANGED callPc

\* The end of a get_action call: r is what GetAction computed for the
\* outcome net.
CallEnds(r, net) ==
  /\ action_queue' = r.q
  /\ current_timestep' = r.ts
  /\ socket' = r.sock
  /\ ret' = r.ret
  /\ raised' = r.raised
  /\ path' = r.path
  /\ netKind' = IF r.path = "network" THEN net.kind ELSE "none"
  /\ disconnectsOnChunk' = IF r.refill THEN 0 ELSE disconnectsOnChunk
  /\ IF r.refill
     THEN /\ dispensed' = 1 /\ clean' = TRUE
          /\ chunkT' = net.rows[1] /\ chunkId' = net.id
     ELSE IF r.path = "network"
     THEN /\ dispensed' = dispensed /\ clean' = FALSE
          /\ UNCHANGED <<chunkT, chunkId>>
     ELSE IF r.path = "hit"
     THEN /\ dispensed' = dispensed + 1 /\ clean' = clean
          /\ UNCHANGED <<chunkT, chunkId>>
     ELSE UNCHANGED <<dispensed, chunkT, clean, chunkId>>
  /\ callPc' = "idle"

\* get_action from its entry to its return, or to the recv of line 198
\* when the request has left.
CallBegin ==
  /\ callPc = "idle"
  /\ callCount < MaxSystemCalls
  /\ callCount' = callCount + 1
  /\ op' = "get_action"
  /\ \E net \in SendInputs(connected, socket, action_queue, current_timestep) :
       IF net.kind # "sent"
       THEN /\ \E r \in {GetAction(connected, socket, action_queue, current_timestep, net)} :
                 CallEnds(r, net)
            /\ sent' = FALSE
            /\ UNCHANGED <<requestCount, inFlight, wireReq>>
       ELSE /\ wireReq' = Append(wireReq, [msg |-> ClientRequest, live |-> TRUE])
            /\ socket' = "awaiting"
            /\ sent' = TRUE
            /\ requestCount' = requestCount + 1
            /\ inFlight' = inFlight + 1
            /\ callPc' = "recv"
            /\ path' = "network"
            /\ netKind' = "pending"
            /\ ret' = <<>>
            /\ raised' = "none"
            /\ UNCHANGED <<action_queue, current_timestep, dispensed, chunkT, clean,
                           chunkId, disconnectsOnChunk>>
  /\ UNCHANGED <<connected, wireRep, serving>>

\* Line 198 returns the reply and lines 199-230 run.
CallReply ==
  /\ callPc = "recv"
  /\ wireRep # <<>>
  /\ \E net \in ReplyOutcomes(Head(wireRep)) :
       \E r \in {GetAction(connected, "ready", action_queue, current_timestep, net)} :
         CallEnds(r, net)
  /\ wireRep' = Tail(wireRep)
  /\ inFlight' = inFlight - 1
  /\ UNCHANGED <<connected, sent, requestCount, callCount, op, wireReq, serving>>

\* Line 198 raises zmq.error.Again: no reply has come within RCVTIMEO.
CallTimeout ==
  /\ callPc = "recv"
  /\ RCVTIMEO >= 0
  /\ wireRep = <<>>
  /\ \E r \in {GetAction(connected, "ready", action_queue, current_timestep,
                         [kind |-> "timeout"])} :
       CallEnds(r, [kind |-> "timeout"])
  /\ UNCHANGED <<connected, sent, requestCount, callCount, op, inFlight, wireReq, wireRep,
                 serving>>

\* Lines 122-123: the request that has waited longest reaches run().
ServerRecv ==
  /\ wireReq # <<>>
  /\ RecvMessage(Head(wireReq).msg)
  /\ serving' = IF Head(wireReq).live THEN "live" ELSE "stale"
  /\ wireReq' = Tail(wireReq)
  /\ UNCHANGED <<callPc, wireRep>>

\* A step of run() between the recv and the next recv: a reply it sends
\* reaches the socket the request came from, if that socket still exists.
ServerStep ==
  /\ LoopHead \/ Stop \/ Validate \/ Resolve \/ HandleGetAction \/ SendResult \/ Except
  /\ IF replies' # replies
     THEN /\ wireRep' = IF serving = "live" THEN Append(wireRep, lastReply') ELSE wireRep
          /\ serving' = "none"
     ELSE UNCHANGED <<wireRep, serving>>
  /\ UNCHANGED <<callPc, wireReq>>

SystemNext ==
  \/ (ClientConnect \/ ClientDisconnect \/ CallBegin \/ CallReply \/ CallTimeout)
       /\ UNCHANGED <<serverVars, codecVars, obsVars>>
  \/ (ServerRecv \/ ServerStep) /\ UNCHANGED <<clientVars, codecVars, obsVars>>

(* ======================================================================= *)
(*                           SPECIFICATIONS                                *)
(* ======================================================================= *)

\* The client alone; the server is a server that has just been constructed.
ClientSpecInit ==
  ClientInit /\ ServerInit /\ api_token = "none" /\ WireInit /\ CodecOff /\ ObsOff
ClientSpec == ClientSpecInit /\ [][ClientNext]_vars

\* The server alone; the client is a client that has just been constructed.
ServerSpecInit == ClientInit /\ ServerInit /\ WireInit /\ CodecOff /\ ObsOff
ServerSpec == ServerSpecInit /\ [][ServerNext]_vars

\* The client and the server it is connected to, with no other client.
SystemSpecInit == ClientInit /\ ServerInit /\ WireInit /\ CodecOff /\ ObsOff
SystemSpec == SystemSpecInit /\ [][SystemNext]_vars

\* The blocking recv of line 198 returns: with the reply once one has
\* reached the socket, with zmq.error.Again once RCVTIMEO has run out.
SystemFairSpec ==
  /\ SystemSpecInit /\ [][SystemNext]_vars
  /\ WF_vars(CallTimeout /\ UNCHANGED <<serverVars, codecVars, obsVars>>)
  /\ WF_vars(CallReply /\ UNCHANGED <<serverVars, codecVars, obsVars>>)

\* One observation of the simulator through _prepare_observation.
ObsSpecInit ==
  ClientInit /\ ServerInit /\ api_token = "none" /\ WireInit /\ CodecOff /\ ObsInit
ObsSpec == ObsSpecInit /\ [][ObsNext]_vars

\* One message through to_bytes and from_bytes.
CodecSpecInit ==
  ClientInit /\ ServerInit /\ api_token = "none" /\ WireInit /\ CodecInit /\ ObsOff
CodecSpec == CodecSpecInit /\ [][CodecNext]_vars

(* ======================================================================= *)
(*                         PROPERTIES: CLIENT                              *)
(* ======================================================================= *)

\* A step that is one get_action call on a connected client.
ConnectedCall == op' = "get_action" /\ callCount' = callCount + 1 /\ connected

\* C1 - Action buffer amortization.  From a refill by a successful reply of
\* T >= 1 timesteps, as long as nothing fails, the chunk serves exactly T
\* get_action returns (the refilling call and T-1 calls that send nothing),
\* and the call after them puts the next request on the wire.
C1_Amortization ==
  /\ [](clean => /\ chunkT >= 1
                 /\ dispensed \in 1..chunkT
                 /\ dispensed = current_timestep
                 /\ chunkT = Len(action_queue))
  /\ [][(ConnectedCall /\ clean) =>
          /\ dispensed < chunkT =>
               /\ requestCount' = requestCount
               /\ ~sent'
               /\ dispensed' = dispensed + 1
               /\ clean'
          /\ (dispensed = chunkT /\ netKind' \notin {"bad_obs", "send_fail"}) =>
               /\ requestCount' = requestCount + 1
               /\ sent']_vars

\* A chunk of two timesteps has served two calls and the third call has
\* sent the second request (its reply did not arrive).
C1_Witness ==
  /\ op = "get_action" /\ path = "network" /\ sent /\ netKind = "timeout"
  /\ chunkT = 2 /\ dispensed = 2 /\ requestCount = 2 /\ callCount = 4

\* C2 (as stated) - Whenever cursor < T, get_action returns chunk[cursor],
\* increments the cursor by one and sends nothing; a request is sent only
\* when the buffer is exhausted.
C2_AsStated ==
  [][(op' = "get_action" /\ callCount' = callCount + 1) =>
       /\ current_timestep < Len(action_queue) =>
            /\ ret' = action_queue[current_timestep + 1]
            /\ current_timestep' = current_timestep + 1
            /\ requestCount' = requestCount /\ ~sent'
       /\ requestCount' # requestCount => ~(current_timestep < Len(action_queue))]_vars

\* C2 (amended) - On a connected client, whenever cursor < T, get_action
\* returns chunk[cursor], increments the cursor by one, leaves the chunk
\* alone and sends nothing; on any client a request is sent only when the
\* buffer is exhausted.
C2_BufferHit ==
  [][(op' = "get_action" /\ callCount' = callCount + 1) =>
       /\ (connected /\ current_timestep < Len(action_queue)) =>
            /\ ret' = action_queue[current_timestep + 1]
            /\ current_timestep' = current_timestep + 1
            /\ action_queue' = action_queue
            /\ requestCount' = requestCount /\ ~sent'
       /\ requestCount' # requestCount => ~(current_timestep < Len(action_queue))]_vars

\* The last timestep of a chunk of three has been served from the buffer
\* after exactly one request.
C2_Witness ==
  /\ op = "get_action" /\ path = "hit" /\ ~sent
  /\ Len(action_queue) = 3 /\ current_timestep = 3
  /\ ret = action_queue[3] /\ requestCount = 1

\* C3 - get_action never lets an exception out: whatever the client state
\* and the outcome of the network call, it returns the timestep of the
\* buffer it has just moved the cursor past, or the fallback.
C3_NeverRaises ==
  op = "get_action" =>
    /\ raised = "none"
    /\ \/ ret = [i \in 1..ActionDim |-> 0]
       \/ /\ current_timestep \in 1..Len(action_queue)
          /\ ret = action_queue[current_timestep]

\* A reply whose right-arm group is not an array has been answered with the
\* fallback.
C3_Witness ==
  /\ op = "get_action" /\ netKind = "bad_group" /\ sent
  /\ raised = "none" /\ ret = ZeroAction /\ action_queue = <<>>

\* C4 - When the network call of get_action ends in a timeout, a send or
\* receive failure or an error reply, the call returns 28 zeros (4 groups
\* of 7) and raises nothing.
C4_FailSafeFallback ==
  (op = "get_action" /\ netKind \in {"timeout", "send_fail", "recv_fail", "error"}) =>
    /\ raised = "none"
    /\ Len(ret) = 4 * GroupDim
    /\ \A i \in 1..Len(ret) : ret[i] = 0

\* A call has timed out with a request on the wire and returned the zeros.
C4_Witness ==
  /\ op = "get_action" /\ netKind = "timeout" /\ sent /\ socket = "awaiting"
  /\ ret = ZeroAction /\ raised = "none"

(* ======================================================================= *)
(*                         PROPERTIES: SERVER                              *)
(* ======================================================================= *)

\* run() is between two requests.
Idle == pc \in {"while", "recv", "stopped"}

\* The request in progress, or answered last, was decoded.
Decoded == request # NoRequest /\ failure # "decode"

IsErrorReply(r) == DOMAIN r = {"error"}

\* C5 - One reply per request: between two requests every request received
\* so far has been answered exactly once, and while a request is in
\* progress no reply to it has left yet.
C5_OneReplyPerRequest ==
  /\ Idle => (replies = received /\ (received > 0 => repliesThis = 1))
  /\ ~Idle => (replies = received - 1 /\ repliesThis = 0)

\* Two requests, one rejected for its token and one whose result could not
\* be encoded, have two replies.
C5_Witness ==
  /\ pc = "while" /\ received = 2 /\ replies = 2 /\ repliesThis = 1
  /\ prevFailure = "token" /\ failure = "encode"

\* C6 - No request takes the server down: whichever step of a request
\* fails, no exception leaves run(), the request is answered with an
\* {error: ...} reply, and run() then goes back to receiving unless it has
\* been stopped.
C6_ServerSurvives ==
  /\ [](pc # "crashed" /\ (pc = "stopped" => ~running))
  /\ []((Idle /\ failure # "none") => (repliesThis = 1 /\ IsErrorReply(lastReply)))
  /\ [][(failure' # "none" /\ failure' # failure) => pc' \in {"except", "while"}]_vars
  /\ [][(pc = "except" /\ pc' # pc) =>
          (pc' = "while" /\ replies' = replies + 1 /\ IsErrorReply(lastReply'))]_vars
  /\ [][(pc = "while" /\ running /\ pc' # pc) => pc' = "recv"]_vars

\* After a request whose log records could not be written, run() waits for
\* the next request.
C6_Witness ==
  /\ pc = "recv" /\ running /\ received = 1 /\ failure = "write_log"
  /\ lastReply = [error |-> "log write failed"]

\* C7 - Handler-exception survival: a request whose handler raises is
\* answered {error: <the exception's message>}, and the request after it,
\* when nothing fails, is answered with the result of its own handler on
\* its own data.
C7_HandlerFailureSurvival ==
  /\ (Idle /\ failure = "handler") =>
       (exc \in HandlerMessages /\ lastReply = [error |-> exc] /\ repliesThis = 1)
  /\ (Idle /\ prevFailure = "handler" /\ failure = "none" /\ received >= 2) =>
       /\ repliesThis = 1
       /\ lastReply = HandlerResult(ResolveEndpoint(request),
                                    IF requires_input[ResolveEndpoint(request)]
                                    THEN RequestData(request) ELSE NoArg)

\* The handler failed on a request without data; the next request, with
\* data, has been answered with the result for that data.
C7_Witness ==
  /\ pc = "while" /\ received = 2 /\ prevFailure = "handler" /\ failure = "none"
  /\ step_count = 2 /\ request.data = "obs"
  /\ lastReply = [endpoint |-> "get_action", input |-> "obs"]

\* C8 - Auth uniformity: with a token configured, a decoded request whose
\* token is not the server's goes no further than the token check and is
\* answered exactly {error: "Unauthorized: Invalid API token"}, whatever
\* its endpoint and data.
C8_AuthUniformity ==
  (api_token # "none" /\ Decoded /\ request.token # api_token) =>
    /\ pc \in {"validate", "while", "recv", "stopped"}
    /\ pc # "validate" =>
         (repliesThis = 1 /\ lastReply = [error |-> "Unauthorized: Invalid API token"])

\* A request with a wrong token for an unknown endpoint has been answered
\* Unauthorized.
C8_Witness ==
  /\ api_token = "secret" /\ pc = "while" /\ Decoded
  /\ request.token = "wrong" /\ request.endpoint = "bogus1" /\ request.data = "obs"
  /\ lastReply = [error |-> "Unauthorized: Invalid API token"]

\* C9 - A request that fails the token check causes no handler invocation:
\* it never reaches endpoint resolution or dispatch, and no handler is
\* called for it up to the next request.
C9_RejectedNeverDispatched ==
  (Decoded /\ ~validate_token(request)) =>
    /\ handlerCalls = <<>>
    /\ pc \notin {"resolve", "handle", "send", "except"}

\* A get_action request with no token has been rejected by a server with a
\* token: no handler call, no step counted.
C9_Witness ==
  /\ api_token = "secret" /\ pc = "recv" /\ received = 1 /\ failure = "token"
  /\ request.token = Absent /\ request.endpoint = "get_action"
  /\ handlerCalls = <<>> /\ step_count = 0

\* C10 - Unknown endpoint: an authorized request that names an endpoint
\* outside the registry is answered {error: "Unknown endpoint: <name>"}
\* with its own name, no handler is called for it, and run() goes on.
C10_UnknownEndpoint ==
  (Decoded /\ validate_token(request) /\ request.endpoint \notin Registry \cup {Absent}) =>
    /\ handlerCalls = <<>>
    /\ pc \in {"validate", "resolve", "except", "while", "recv", "stopped"}
    /\ Idle => (repliesThis = 1 /\ lastReply = [error |-> "Unknown endpoint: " \o request.endpoint])
    /\ (pc = "stopped" => ~running)

\* Two unknown names in a row have each been answered with their own name,
\* and run() waits for more.
C10_Witness ==
  /\ pc = "while" /\ running /\ received = 2 /\ prevFailure = "lookup" /\ failure = "lookup"
  /\ request.endpoint = "bogus3"
  /\ lastReply = [error |-> "Unknown endpoint: bogus3"]

(* ======================================================================= *)
(*                    PROPERTIES: C11 .. C20                               *)
(* ======================================================================= *)

\* C11 (as stated) - A message that cannot be decoded is answered
\* {error: "malformed request"}.
C11_AsStated ==
  (Idle /\ failure = "decode") => lastReply = [error |-> "malformed request"]

\* C11 (amended) - A message that cannot be decoded is answered
\* {error: <message of the decoder's exception>}; no handler runs for it and
\* run() goes on to the next request.
C11_DecodeFailure ==
  failure = "decode" =>
    /\ pc \in {"except", "while", "recv", "stopped"}
    /\ handlerCalls = <<>>
    /\ Idle => (repliesThis = 1 /\ lastReply = [error |-> DecodeErrorMessage])
    /\ pc = "stopped" => ~running

\* An undecodable message has been answered and run() waits for the next.
C11_Witness ==
  /\ pc = "recv" /\ running /\ received = 1 /\ failure = "decode"
  /\ lastReply = [error |-> "Unpack failed: incomplete input"]

\* One get_action call that went to the network and came back without a
\* refill.
FallbackCall ==
  /\ op' = "get_action" /\ callCount' = callCount + 1
  /\ path' = "network" /\ ~clean'

\* C12 - A get_action call that ends in the fallback leaves the chunk and
\* the cursor as they were.
C12_AsStated ==
  [][FallbackCall => (action_queue' = action_queue /\ current_timestep' = current_timestep)]_vars

\* C13 - In every reachable state 0 <= cursor <= T, T the number of
\* buffered timesteps.
C13_AsStated ==
  current_timestep >= 0 /\ current_timestep <= Len(action_queue)

\* C14 - In-order dispensing: the call that refills from a reply c of T
\* timesteps returns c[0] and leaves the cursor at 1 with c as the buffer;
\* the k-th return served by that chunk is c[k-1], for k up to T.
C14_InOrder ==
  (clean /\ op = "get_action" /\ path \in {"hit", "network"}) =>
    /\ dispensed \in 1..chunkT
    /\ current_timestep = dispensed
    /\ path = "network" => dispensed = 1
    /\ Len(action_queue) = chunkT
    /\ \A t \in 1..chunkT : action_queue[t] = Action28(chunkId, t - 1)
    /\ ret = Action28(chunkId, dispensed - 1)

\* The third and last timestep of the chunk of reply 2 has been returned.
C14_Witness ==
  /\ clean /\ op = "get_action" /\ path = "hit"
  /\ chunkId = 2 /\ chunkT = 3 /\ dispensed = 3
  /\ ret = Action28(2, 2) /\ requestCount = 1

\* The step numbers of the log, in order.
LoggedSteps == [i \in 1..Len(log) |-> log[i].step]

\* C15 - After N get_action requests the step numbers in the log are
\* exactly 1..N in order, whether or not the requests failed.
C15_AsStated ==
  Idle => /\ {LoggedSteps[i] : i \in 1..Len(log)} = 1..inferenceRequests
          /\ \A i, j \in 1..Len(log) : i < j => LoggedSteps[i] <= LoggedSteps[j]

\* C16 - The step counter starts at 0, is one more after each request
\* dispatched to get_action and unchanged after any other, and never
\* decreases.
C16_StepCounter ==
  /\ [](received = 0 => step_count = 0)
  /\ [](Idle => step_count = inferenceRequests)
  /\ [](~Idle => step_count \in {inferenceRequests - 1, inferenceRequests})
  /\ [][step_count' \in {step_count, step_count + 1}]_vars

\* A failed get_action request then a get_modality_config request: one step.
C16_Witness ==
  /\ pc = "while" /\ received = 2 /\ prevFailure = "handler" /\ failure = "none"
  /\ request.endpoint = "get_modality_config" /\ step_count = 1

\* C17 - Every get_action request processed has appended an input record
\* and then an output record with its step number.
C17_AsStated ==
  Idle => /\ Len(log) = 2 * inferenceRequests
          /\ \A k \in 1..inferenceRequests :
               /\ log[2 * k - 1] = [step |-> k, type |-> "input"]
               /\ log[2 * k] = [step |-> k, type |-> "output"]

\* C18 - A get_action request whose image or log records could not be
\* written still has its handler called and is answered with the handler's
\* result.
C18_AsStated ==
  (Idle /\ failure \in {"image", "write_log"}) =>
    /\ handlerCalls # <<>>
    /\ lastReply = HandlerResult("get_action", RequestData(request))

\* C19 - A handler is called with the request's data when its endpoint
\* requires input and without argument otherwise, at most once per request.
C19_ArgumentByFlag ==
  /\ Len(handlerCalls) <= 1
  /\ \A i \in 1..Len(handlerCalls) :
       /\ handlerCalls[i].endpoint = ResolveEndpoint(request)
       /\ handlerCalls[i].arg = IF requires_input[handlerCalls[i].endpoint]
                                THEN RequestData(request) ELSE NoArg

\* get_modality_config has been called without argument for a request
\* that carried data.
C19_Witness ==
  /\ handlerCalls = <<[endpoint |-> "get_modality_config", arg |-> NoArg]>>
  /\ request.data = "obs" /\ pc = "send"

\* C20 - At most one request is unanswered on the client's socket, and a
\* request goes out only when none is.
C20_OneInFlight ==
  /\ [](inFlight \in {0, 1})
  /\ [][(op' = "get_action" /\ callCount' = callCount + 1 /\ sent') => inFlight = 0]_vars

\* After a timeout the next call could not send: still one request
\* unanswered, one request on the wire in all.
C20_Witness ==
  /\ op = "get_action" /\ netKind = "send_fail" /\ ~sent
  /\ inFlight = 1 /\ socket = "awaiting" /\ requestCount = 1 /\ callCount = 3

(* ======================================================================= *)
(*                  PROPERTIES: FRAME OF THE CLIENT                        *)
(* ======================================================================= *)

\* C25 - disconnect() and connect() leave the buffered chunk and the cursor
\* unchanged, so a get_action call on the reconnected client that finds
\* unexhausted timesteps of the chunk fetched before the disconnect returns
\* the timestep at the cursor, advances the cursor by one and sends nothing;
\* through any number of such calls the returns are the timesteps of the old
\* chunk in order.
C25_DisconnectKeepsBuffer ==
  [][/\ (op' \in {"disconnect", "connect"} /\ callCount' = callCount + 1)
        => UNCHANGED <<action_queue, current_timestep, requestCount>>
     /\ (ConnectedCall /\ disconnectsOnChunk > 0 /\ current_timestep < Len(action_queue))
        => /\ ret' = action_queue[current_timestep + 1]
           /\ current_timestep' = current_timestep + 1
           /\ action_queue' = action_queue
           /\ ~sent' /\ requestCount' = requestCount
           /\ (clean => /\ dispensed' = current_timestep'
                        /\ ret' = Action28(chunkId, dispensed' - 1))]_vars

\* C25 witness: a chunk of 3 timesteps was fetched, the client disconnected
\* and reconnected, and the first call after that returned timestep 2 of the
\* old chunk with one request sent in all.
C25_Witness ==
  /\ op = "get_action" /\ path = "hit" /\ connected
  /\ disconnectsOnChunk = 1 /\ clean
  /\ chunkT = 3 /\ dispensed = 2 /\ ret = Action28(chunkId, 1)
  /\ requestCount = 1

\* C26 - A get_action call on a client that is not connected returns the
\* 28-value zero action, sends nothing and leaves the queue, the cursor and
\* the socket as they were, whatever the buffer holds.
C26_OfflineZero ==
  [][(op' = "get_action" /\ callCount' = callCount + 1 /\ ~connected)
       => /\ ret' = ZeroAction /\ Len(ret') = 28
          /\ raised' = "none"
          /\ ~sent' /\ requestCount' = requestCount
          /\ UNCHANGED <<action_queue, current_timestep, socket, connected>>]_vars

\* C26 witness: a disconnected client with two unexhausted buffered
\* timesteps has answered a call with zeros.
C26_Witness ==
  /\ op = "get_action" /\ path = "offline" /\ ~connected /\ socket = "closed"
  /\ Len(action_queue) = 3 /\ current_timestep = 1
  /\ ret = ZeroAction /\ requestCount = 1

(* ======================================================================= *)
(*                  PROPERTIES: FRAME OF THE SERVER                        *)
(* ======================================================================= *)

\* C27 - The step counter, the log and the image directory change only
\* while run() handles an authorized request that resolves to get_action:
\* a request rejected for its token, one that names an unknown endpoint and
\* one that names another registered endpoint leave all three as they were.
C27_OnlyGetActionCounts ==
  [][(step_count' # step_count \/ log' # log \/ images' # images)
       => /\ pc = "handle"
          /\ request # NoRequest
          /\ validate_token(request)
          /\ request.endpoint \in {Absent, "get_action"}]_vars

\* C27 witness: after one logged inference a request for another registered
\* endpoint has been answered, and counter, log and images are those of the
\* one inference.
C27_Witness ==
  /\ pc = "while" /\ received = 2 /\ replies = 2
  /\ request # NoRequest /\ request.endpoint = "get_modality_config"
  /\ failure = "none" /\ prevFailure = "none"
  /\ step_count = 1 /\ Len(log) = 2 /\ Cardinality(images) = 1

\* C28 - An authorized request without endpoint field is handled as
\* get_action: it is never answered with the unknown-endpoint or a decode
\* error; once run() is past the branch the step counter has counted it, and
\* unless the input summary or the image save failed the get_action handler
\* has been invoked exactly once, with the request's data, or with the empty
\* mapping when the request has no data either, in which case the handler
\* is always reached.
C28_DefaultEndpoint ==
  (Decoded /\ validate_token(request) /\ request.endpoint = Absent
     /\ pc \in {"handle", "send", "except", "while", "recv", "stopped"})
    => /\ endpoint = "get_action"
       /\ failure \notin {"lookup", "decode", "token"}
       /\ (pc # "handle")
            => /\ step_count = inferenceRequests
               /\ (failure \notin {"input_log", "image"})
                    => handlerCalls =
                         <<[endpoint |-> "get_action",
                            arg |-> IF request.data = Absent THEN EmptyMapping
                                    ELSE request.data]>>
               /\ (request.data = Absent) => failure \notin {"input_log", "image"}

\* C28 witness: a request with neither endpoint nor data has been answered
\* with the handler's result for the empty mapping.
C28_Witness ==
  /\ pc = "while" /\ Decoded /\ request.endpoint = Absent /\ request.data = Absent
  /\ step_count = 1 /\ failure = "none"
  /\ handlerCalls = <<[endpoint |-> "get_action", arg |-> EmptyMapping]>>
  /\ lastReply = HandlerResult("get_action", EmptyMapping)

(* ======================================================================= *)
(*                  PROPERTIES: CONTENT OF THE BUFFER                      *)
(* ======================================================================= *)

\* C30 - Right after a refill by a successful reply the queue has as many
\* timesteps as action.left_arm has rows, and timestep t is 28 values long:
\* row t of left_arm, of right_arm, of left_hand and of right_hand, 7 values
\* each, in that order.
C30_BufferContent ==
  (op = "get_action" /\ path = "network" /\ clean)
    => /\ Len(action_queue) = chunkT
       /\ \A t \in 1..Len(action_queue) :
            /\ Len(action_queue[t]) = 28
            /\ \A g \in 1..4 :
                 SubSeq(action_queue[t], 7 * (g - 1) + 1, 7 * g) = GroupRow(chunkId, g, t - 1)

\* C30 witness: a reply of 2 rows has filled the queue with 2 timesteps.
C30_Witness ==
  /\ op = "get_action" /\ path = "network" /\ netKind = "chunk" /\ clean
  /\ chunkT = 2 /\ Len(action_queue) = 2
  /\ action_queue[2][8] = GroupRow(chunkId, 2, 1)[1]

(* ======================================================================= *)
(*                  PROPERTIES: CODEC AND OBSERVATION                      *)
(* ======================================================================= *)

\* C22 - Codec round trip: what from_bytes returns for the bytes to_bytes
\* made of a message is that message, also when the message holds a mapping
\* with the key "__ndarray_class__".
C22_AsStated ==
  codecPc = "unpacked" => unpacked = message

\* The positions, in the sample observed, of the joints listed.
LimbPositions(joints) == [i \in 1..Len(joints) |-> Reading(sample, 1, joints[i])]

\* C24 - Each state.* vector of the prepared observation is the 7 joint
\* positions of its limb: the left arm and the right arm are entries 15-21
\* and 22-28 of the body joints, the left and the right hand entries 0-6 and
\* 7-13 of the hand joints.
C24_AsStated ==
  obsPc = "prepared" =>
    /\ groot_obs.left_arm = LimbPositions(SubSeq(body_joint_indices, 16, 22))
    /\ groot_obs.right_arm = LimbPositions(SubSeq(body_joint_indices, 23, 29))
    /\ groot_obs.left_hand = LimbPositions(SubSeq(hand_joint_indices, 1, 7))
    /\ groot_obs.right_hand = LimbPositions(SubSeq(hand_joint_indices, 8, 14))

(* ======================================================================= *)
(*              PROPERTIES: CLIENT AND SERVER TOGETHER                     *)
(* ======================================================================= *)

\* C21 - A get_action call that waits in recv returns; the return by
\* timeout gives the fallback and leaves the request and the server's work
\* on it as they are; and a call that waits sends nothing more.
C21_CallReturns ==
  /\ (callPc = "recv") ~> (callPc = "idle")
  /\ [][(callPc = "recv" /\ callPc' = "idle" /\ netKind' = "timeout")
          => /\ ret' = ZeroAction /\ raised' = "none"
             /\ UNCHANGED <<serverVars, wireReq, serving, requestCount>>]_vars
  /\ [][callPc = "recv"
          => requestCount' = requestCount /\ Len(wireReq') <= Len(wireReq)]_vars

\* C21 witness: the call has returned by timeout, and after that the server
\* has invoked the handler for its request and sent the reply.
C21_Witness ==
  /\ op = "get_action" /\ callPc = "idle" /\ netKind = "timeout" /\ ret = ZeroAction
  /\ requestCount = 1 /\ replies = 1 /\ Len(handlerCalls) = 1 /\ failure = "none"
  /\ wireRep = <<lastReply>>

\* C23 - Once a call has timed out the socket awaits the reply, and every
\* later get_action call on that connection returns the zero fallback without
\* a request leaving, without reading a reply that has come meanwhile and
\* without touching the buffer; the socket stays as it is.
C23_StuckAfterTimeout ==
  /\ [][(callPc = "recv" /\ callPc' = "idle" /\ netKind' = "timeout")
          => socket' = "awaiting" /\ connected']_vars
  /\ [][(callPc = "idle" /\ connected /\ socket = "awaiting"
           /\ op' = "get_action" /\ callCount' = callCount + 1)
          => /\ ret' = ZeroAction /\ raised' = "none"
             /\ ~sent' /\ callPc' = "idle" /\ socket' = "awaiting"
             /\ UNCHANGED <<requestCount, wireReq, wireRep, action_queue,
                            current_timestep, serverVars>>]_vars

\* C23 witness: after a timeout the server's reply has reached the socket,
\* and a later call has failed at its send all the same.
C23_Witness ==
  /\ op = "get_action" /\ callPc = "idle" /\ connected /\ socket = "awaiting"
  /\ netKind = "send_fail" /\ ~sent /\ ret = ZeroAction
  /\ requestCount = 1 /\ replies = 1 /\ Len(wireRep) = 1 /\ "error" \notin DOMAIN lastReply

\* C29 - Every request of the client has the endpoint get_action, data and
\* no token.  With a server that has a token, every reply the client gets
\* is the Unauthorized error, every get_action call returns the zero
\* fallback, the buffer stays empty and the server never counts a step nor
\* invokes a handler.
C29_NoToken ==
  /\ \A i \in DOMAIN wireReq :
       /\ wireReq[i].msg.token = Absent
       /\ wireReq[i].msg.endpoint = "get_action"
       /\ wireReq[i].msg.data # Absent
  /\ request # NoRequest => request.token = Absent /\ request.endpoint = "get_action"
  /\ api_token # "none" =>
       /\ \A i \in DOMAIN wireRep : wireRep[i] = UnauthorizedReply
       /\ lastReply \in {NoReply, UnauthorizedReply}
       /\ action_queue = <<>> /\ current_timestep = 0 /\ ~clean
       /\ (op = "get_action" /\ callPc = "idle") => ret = ZeroAction
       /\ (op = "get_action" /\ callPc = "idle" /\ sent /\ netKind # "timeout")
            => netKind = "error"
       /\ step_count = 0 /\ handlerCalls = <<>>

\* C29 witness: a call against a server with a token has got the
\* Unauthorized reply and returned zeros.
C29_Witness ==
  /\ api_token = "secret" /\ op = "get_action" /\ callPc = "idle"
  /\ sent /\ netKind = "error" /\ ret = ZeroAction
  /\ lastReply = UnauthorizedReply /\ requestCount = 1 /\ action_queue = <<>>

====
